---- MODULE Spec2Model ----
(***************************************************************************)
(* Model of pydantic_touchall.checker: the AST visitor                     *)
(* BaseModelFieldChecker and the driver check_file.                        *)
(*                                                                         *)
(* Strings of the analysed source are sequences of tokens: a token is a    *)
(* run of characters that the checker never splits ("# ", "touchall: ",    *)
(* "ignore", "-field", ",", " ", a name).  Substring tests of the code are *)
(* substring tests on token sequences.  Line numbers of the parser and of  *)
(* str.splitlines() are taken to agree (the source uses "\n" only).        *)
(***************************************************************************)
EXTENDS Integers, Sequences, FiniteSets, TLC

\* ---------------------------------------------------------------- bounds
MaxItems == 2        \* statements in a class body
NumLines == 2        \* lines of the analysed file
MaxNodes == 4        \* nodes the traversal visits in one run

None == "<None>"

\* names that occur as fields and keywords, in Python's string order
NameOrder == <<"a", "b", "c">>
FieldNames == {"a", "b"}
KeywordNames == {"a", "b", "c"}
ClassNames == {"M", "X"}

\* source_lines, model_definitions, imported_models, processed_files and
\* errors are the checker's attributes; visited counts the nodes the
\* traversal has visited; calls logs every visited call with its outcome and
\* declared holds the names of the model classes declared so far in the
\* analysed file
VARIABLES source_lines, model_definitions, imported_models, processed_files,
          errors, visited, calls, declared

vars == <<source_lines, model_definitions, imported_models, processed_files,
          errors, visited, calls, declared>>

\* ------------------------------------------------------- string helpers
\* pat in s
Contains(s, pat) ==
    \E i \in 1..(Len(s) - Len(pat) + 1) : SubSeq(s, i, i + Len(pat) - 1) = pat

\* s.split(pat, 1)[1], defined when pat occurs in s
SplitAfter(s, pat) ==
    LET i == CHOOSE k \in 1..(Len(s) - Len(pat) + 1) :
                 /\ SubSeq(s, k, k + Len(pat) - 1) = pat
                 /\ \A j \in 1..(k - 1) : SubSeq(s, j, j + Len(pat) - 1) # pat
    IN SubSeq(s, i + Len(pat), Len(s))

\* s.strip()
RECURSIVE LStrip(_)
LStrip(s) == IF s # <<>> /\ Head(s) = " " THEN LStrip(Tail(s)) ELSE s

RECURSIVE RStrip(_)
RStrip(s) == IF s # <<>> /\ s[Len(s)] = " "
             THEN RStrip(SubSeq(s, 1, Len(s) - 1)) ELSE s

Strip(s) == RStrip(LStrip(s))

\* s.split(','): the sequence of the pieces between the commas
RECURSIVE SplitComma(_)
SplitComma(s) ==
    IF \E i \in 1..Len(s) : s[i] = ","
    THEN LET i == CHOOSE k \in 1..Len(s) :
                      s[k] = "," /\ \A j \in 1..(k - 1) : s[j] # ","
         IN <<SubSeq(s, 1, i - 1)>> \o SplitComma(SubSeq(s, i + 1, Len(s)))
    ELSE <<s>>

\* ', '.join(seq)
RECURSIVE Join(_)
Join(seq) == IF Len(seq) <= 1 THEN seq
             ELSE <<Head(seq), ", ">> \o Join(Tail(seq))

Rank(n) == CHOOSE i \in 1..Len(NameOrder) : NameOrder[i] = n

\* insertion of x into the sorted sequence s, after its equals
RECURSIVE Insert(_, _)
Insert(x, s) == IF s = <<>> THEN <<x>>
                ELSE IF Rank(x) < Rank(Head(s)) THEN <<x>> \o s
                ELSE <<Head(s)>> \o Insert(x, Tail(s))

\* sorted(list)
RECURSIVE SortedList(_)
SortedList(s) == IF s = <<>> THEN <<>>
                 ELSE Insert(s[Len(s)], SortedList(SubSeq(s, 1, Len(s) - 1)))

RECURSIVE SetToSeq(_)
SetToSeq(S) == IF S = {} THEN <<>>
               ELSE LET x == CHOOSE y \in S : TRUE
                    IN <<x>> \o SetToSeq(S \ {x})

\* sorted(set)
SortedSet(S) == SortedList(SetToSeq(S))

Range(s) == {s[i] : i \in 1..Len(s)}

\* -------------------------------------------------- directive comments
LongIgnoreField == <<"# ", "pydantic-", "touchall: ", "ignore", "-field">>
ShortIgnoreField == <<"# ", "touchall: ", "ignore", "-field">>
LongIgnore == <<"# ", "pydantic-", "touchall: ", "ignore">>
ShortIgnore == <<"# ", "touchall: ", "ignore">>

\* the result of the ignore-field branch for one line
ParseIgnoreFieldBroken(line) ==
    LET comment_part == <<" ">> \o SplitAfter(line, <<"# ">>)
        field_part == Strip(SplitAfter(comment_part, <<"ignore", "-field">>))
        pieces == SplitComma(field_part)
    IN {pieces[i] : i \in 1..Len(pieces)}

ParseIgnoreField(line) ==
    LET comment_part == <<" ">> \o SplitAfter(line, <<"# ">>)
        field_part == Strip(SplitAfter(comment_part, <<"ignore", "-field">>))
        pieces == SplitComma(field_part)
    IN {Strip(pieces[i]) : i \in {k \in 1..Len(pieces) : Strip(pieces[k]) # <<>>}}

IsIgnoreFieldLine(line) ==
    Contains(line, LongIgnoreField) \/ Contains(line, ShortIgnoreField)

IsIgnoreLine(line) ==
    Contains(line, LongIgnore) \/ Contains(line, ShortIgnore)

\* the loop over lines_to_check: the first line carrying a marker decides
RECURSIVE ScanLines(_)
ScanLines(lines) ==
    IF lines = <<>> THEN [ignore_all |-> FALSE, ignored_fields |-> {}]
    ELSE IF IsIgnoreFieldLine(Head(lines))
         THEN [ignore_all |-> FALSE,
               ignored_fields |-> ParseIgnoreField(Head(lines))]
         ELSE IF IsIgnoreLine(Head(lines))
              THEN [ignore_all |-> TRUE, ignored_fields |-> {}]
              ELSE ScanLines(Tail(lines))

\* the call's own line, then the line above it
LinesToCheckOwnOnly(lines, lineno) == <<lines[lineno]>>

LinesToCheck(lines, lineno) ==
    (IF lineno > 0 THEN <<lines[lineno]>> ELSE <<>>)
    \o (IF lineno > 1 THEN <<lines[lineno - 1]>> ELSE <<>>)

_check_ignore_comment(lines, lineno) ==
    IF lines = <<>> \/ lineno <= 0 \/ lineno > Len(lines)
    THEN [ignore_all |-> FALSE, ignored_fields |-> {}]
    ELSE ScanLines(LinesToCheck(lines, lineno))


\* ------------------------------------------------------------ AST nodes
\* annotations of a class-body statement
AnnInt == [type |-> "Name", value_type |-> None, name |-> "int"]
AnnOptional == [type |-> "Subscript", value_type |-> "Name", name |-> "Optional"]
AnnTypingOptional ==
    [type |-> "Subscript", value_type |-> "Attribute", name |-> "Optional"]

\* statements of a class body: annotated assignments to a name, and one
\* plain assignment (not a field)
AnnAssigns == [type : {"AnnAssign"}, target_type : {"Name"}, target : FieldNames,
               value : BOOLEAN, annotation : {AnnInt, AnnOptional}]
PlainAssign == [type |-> "Assign", target_type |-> "Name", target |-> "a",
                value |-> TRUE, annotation |-> AnnInt]
Items == AnnAssigns \cup {PlainAssign}

RECURSIVE SeqsUpTo(_, _)
SeqsUpTo(S, n) ==
    IF n = 0 THEN {<<>>}
    ELSE LET shorter == SeqsUpTo(S, n - 1)
         IN shorter \cup {Append(s, x) : s \in shorter, x \in S}

Bodies == SeqsUpTo(Items, MaxItems)

BaseModelBases == {<<[type |-> "Name", name |-> "BaseModel"]>>,
                   <<[type |-> "Name", name |-> "object"],
                     [type |-> "Attribute", name |-> "Base"]>>}

\* node.keywords of a call: the named keywords, then **kwargs if any
Keywords(names, spread) ==
    LET s == SetToSeq(names)
    IN [i \in 1..Len(s) |-> [arg |-> s[i]]]
       \o (IF spread THEN <<[arg |-> None]>> ELSE <<>>)

\* ------------------------------------------------------ model registry
_is_optional_type(annotation) ==
    IF annotation.type = "Subscript"
    THEN IF annotation.value_type = "Name" THEN annotation.name = "Optional"
         ELSE IF annotation.value_type = "Attribute"
              THEN annotation.name = "Optional"
              ELSE FALSE
    ELSE FALSE

RECURSIVE _extract_fields(_)
_extract_fields(body) ==
    IF body = <<>> THEN <<>>
    ELSE LET item == Head(body)
         IN (IF item.type = "AnnAssign" /\ item.target_type = "Name"
             THEN <<[name |-> item.target,
                     has_default |-> item.value,
                     is_optional |-> _is_optional_type(item.annotation)]>>
             ELSE <<>>)
            \o _extract_fields(Tail(body))

is_base_model(bases) ==
    \E i \in 1..Len(bases) :
        /\ bases[i].type \in {"Name", "Attribute"}
        /\ bases[i].name \in {"BaseModel", "Base"}

\* d[k] = v on a dict
Put(d, k, v) == [n \in DOMAIN d \cup {k} |-> IF n = k THEN v ELSE d[n]]

EmptyDict == [n \in {} |-> <<>>]

\* ------------------------------------------------ instantiation check
required_fields(fields) ==
    {fields[i].name : i \in {k \in 1..Len(fields) :
                                ~fields[k].has_default /\ ~fields[k].is_optional}}

all_fields(fields) == {fields[i].name : i \in 1..Len(fields)}

provided_fields(keywords) ==
    {keywords[i].arg : i \in {k \in 1..Len(keywords) : keywords[k].arg # None}}

has_kwargs_never(keywords) == FALSE

has_kwargs(keywords) == \E i \in 1..Len(keywords) : keywords[i].arg = None

\* S - ignored_fields, the ignored names being token sequences
Minus(S, ignored_fields) == {f \in S : <<f>> \notin ignored_fields}

RECURSIVE optional_missing(_, _)
optional_missing(fields, missing_all) ==
    IF fields = <<>> THEN <<>>
    ELSE (IF Head(fields).name \in missing_all
             /\ (Head(fields).has_default \/ Head(fields).is_optional)
          THEN <<Head(fields).name>> ELSE <<>>)
         \o optional_missing(Tail(fields), missing_all)

Finding(node, kind, class_name, names) ==
    [lineno |-> node.lineno, col_offset |-> node.col_offset,
     message |-> [prefix |-> "Error:", kind |-> kind, class_name |-> class_name,
                  fields |-> Join(names)]]

unknown_fields_minus_ignored(provided, all, ignored_fields) ==
    Minus(provided \ all, ignored_fields)

unknown_fields(provided, all, ignored_fields) == provided \ all

missing_required_unsorted(required, provided, ignored_fields) ==
    LET s == SortedSet(Minus(required \ provided, ignored_fields))
    IN [i \in 1..Len(s) |-> s[Len(s) + 1 - i]]

missing_required(required, provided, ignored_fields) ==
    SortedSet(Minus(required \ provided, ignored_fields))

\* the findings _check_instantiation appends to self.errors
_check_instantiation(lines, fields, node, class_name) ==
    LET ignore == _check_ignore_comment(lines, node.lineno)
        required == required_fields(fields)
        all == all_fields(fields)
        provided == provided_fields(node.keywords)
        missing_req == missing_required(required, provided, ignore.ignored_fields)
        missing_all == Minus(all \ provided, ignore.ignored_fields)
        opt_missing == optional_missing(fields, missing_all)
        unknown == unknown_fields(provided, all, ignore.ignored_fields)
    IN IF ignore.ignore_all THEN <<>>
       ELSE IF has_kwargs(node.keywords) THEN <<>>
       ELSE (IF missing_req # <<>>
             THEN <<Finding(node, "missing_required", class_name, missing_req)>>
             ELSE <<>>)
            \o (IF missing_all # {} /\ opt_missing # <<>>
                THEN <<Finding(node, "unused_optional", class_name,
                               SortedList(opt_missing))>>
                ELSE <<>>)
            \o (IF unknown # {}
                THEN <<Finding(node, "unknown_field", class_name,
                               SortedSet(unknown))>>
                ELSE <<>>)


\* ----------------------------------------------------------- the files
\* A path is the sequence of its components.
current_file == <<"proj", "app", "main.py">>

\* "no path" (None where a path is expected)
NoPath == <<None>>

FieldA == [type |-> "AnnAssign", target_type |-> "Name", target |-> "a",
           value |-> FALSE, annotation |-> AnnInt]
FieldB == [type |-> "AnnAssign", target_type |-> "Name", target |-> "b",
           value |-> FALSE, annotation |-> AnnInt]

ClassDefNode(name, bases, body) ==
    [type |-> "ClassDef", name |-> name, bases |-> bases, body |-> body]

ImportFromNode(module, names) ==
    [type |-> "ImportFrom", module |-> module, names |-> names]

Module(parts) == [dots |-> 0, parts |-> parts]

\* node.module of "from . import name": no module name
NoModule == Module(<<>>)

Alias(name) == [name |-> name, asname |-> None]

\* the other files of the project: what open() and ast.parse() give for
\* each, the tree as the sequence of its nodes in traversal order
Files ==
    (<<"proj", "pyproject.toml">> :> [status |-> "ok", tree |-> <<>>])
 @@ (<<"proj", "b.py">> :>
        [status |-> "ok",
         tree |-> <<ImportFromNode(Module(<<"c">>), <<Alias("M")>>)>>])
 @@ (<<"proj", "c.py">> :>
        [status |-> "ok",
         tree |-> <<ClassDefNode("M", <<[type |-> "Name", name |-> "BaseModel"]>>,
                                 <<FieldA>>)>>])
 @@ (<<"proj", "other.py">> :>
        [status |-> "ok",
         tree |-> <<ClassDefNode("M", <<[type |-> "Name", name |-> "BaseModel"]>>,
                                 <<FieldA>>),
                    ClassDefNode("X", <<[type |-> "Name", name |-> "BaseModel"]>>,
                                 <<FieldB>>)>>])
 @@ (<<"proj", "bad.py">> :> [status |-> "SyntaxError", tree |-> <<>>])
 @@ (<<"proj", "locked.py">> :> [status |-> "OSError", tree |-> <<>>])
 @@ (<<"proj", "pkg", "__init__.py">> :>
        [status |-> "ok",
         tree |-> <<ClassDefNode("X", <<[type |-> "Name", name |-> "BaseModel"]>>,
                                 <<FieldA, FieldB,
                                   [type |-> "AnnAssign", target_type |-> "Name",
                                    target |-> "c", value |-> FALSE,
                                    annotation |-> AnnTypingOptional]>>)>>])

Directories == {<<>>, <<"proj">>, <<"proj", "app">>, <<"proj", "pkg">>}

exists(path) == path \in DOMAIN Files \/ path \in Directories \/ path = current_file

dirname(path) == IF path = <<>> THEN <<>> ELSE SubSeq(path, 1, Len(path) - 1)

\* file_path + '.py'
PyName == ("b" :> "b.py") @@ ("c" :> "c.py") @@ ("other" :> "other.py")
       @@ ("bad" :> "bad.py") @@ ("locked" :> "locked.py") @@ ("pkg" :> "pkg.py")
       @@ ("missing" :> "missing.py")

AddPy(path) == SubSeq(path, 1, Len(path) - 1) \o <<PyName[path[Len(path)]]>>

RECURSIVE Ancestor(_, _)
Ancestor(dir, n) == IF n <= 0 THEN dir ELSE Ancestor(dirname(dir), n - 1)

HasRootMarker(dir) ==
    exists(dir \o <<"pyproject.toml">>) \/ exists(dir \o <<"setup.py">>)

\* the upward search for the project root
RECURSIVE FindProjectRoot(_)
FindProjectRoot(search_dir) ==
    IF search_dir = dirname(search_dir) THEN NoPath
    ELSE IF HasRootMarker(search_dir) THEN search_dir
    ELSE FindProjectRoot(dirname(search_dir))

_resolve_module_path(module_name, file) ==
    LET current_dir == dirname(file)
        project_root == IF FindProjectRoot(current_dir) = NoPath THEN current_dir
                        ELSE FindProjectRoot(current_dir)
        file_path == IF module_name.dots > 0
                     THEN Ancestor(current_dir, module_name.dots - 1)
                          \o module_name.parts
                     ELSE project_root \o module_name.parts
    IN IF exists(AddPy(file_path)) THEN AddPy(file_path)
       ELSE IF exists(file_path \o <<"__init__.py">>)
            THEN file_path \o <<"__init__.py">>
            ELSE NoPath

\* temp_checker.visit(tree): the model definitions a checker without
\* current_file collects (its calls load nothing and its errors are dropped)
RECURSIVE TempVisit(_, _)
TempVisit(tree, defs) ==
    IF tree = <<>> THEN defs
    ELSE LET node == Head(tree)
         IN TempVisit(Tail(tree),
                      IF node.type = "ClassDef" /\ is_base_model(node.bases)
                      THEN Put(defs, node.name, _extract_fields(node.body))
                      ELSE defs)

\* the merge of temp_checker.model_definitions into self.model_definitions
MergeOverwriting(defs, temp, model_name) ==
    [n \in DOMAIN defs \cup DOMAIN temp |->
        IF n \in DOMAIN temp THEN temp[n] ELSE defs[n]]

Merge(defs, temp, model_name) ==
    [n \in DOMAIN defs \cup DOMAIN temp |->
        IF n \in DOMAIN temp /\ (n = model_name \/ n \notin DOMAIN defs)
        THEN temp[n] ELSE defs[n]]

\* the new values of model_definitions and processed_files
_load_imported_model(defs, imports, processed, model_name, file) ==
    LET unchanged == [model_definitions |-> defs, processed_files |-> processed]
    IN IF model_name \in DOMAIN defs THEN unchanged
       ELSE IF model_name \notin DOMAIN imports THEN unchanged
       ELSE LET file_path == _resolve_module_path(imports[model_name], file)
            IN IF file_path = NoPath \/ file_path \in processed THEN unchanged
               ELSE [model_definitions |->
                        IF Files[file_path].status = "ok"
                        THEN Merge(defs, TempVisit(Files[file_path].tree, EmptyDict),
                                   model_name)
                        ELSE defs,
                     processed_files |-> processed \cup {file_path}]


\* ------------------------------------------------------------ the lines
PlainLine == <<"code">>
LongIgnoreLine == <<"code", " ", "# ", "pydantic-", "touchall: ", "ignore">>
ShortIgnoreLine == <<"code", " ", "# ", "touchall: ", "ignore">>
\* "# touchall: ignore-field c, a, "
ShortFieldLine == <<"code", " ", "# ", "touchall: ", "ignore", "-field",
                    " ", "c", ",", " ", "a", ",", " ">>
\* "# pydantic-touchall: ignore-field b"
LongFieldLine == <<"# ", "pydantic-", "touchall: ", "ignore", "-field", " ", "b">>
\* "# touchall: ignore # touchall: ignore-field a"
BothLine == <<"# ", "touchall: ", "ignore", " ",
              "# ", "touchall: ", "ignore", "-field", " ", "a">>

LineKinds == {PlainLine, LongIgnoreLine, ShortIgnoreLine, ShortFieldLine,
              LongFieldLine, BothLine}

\* -------------------------------------------------------------- actions
\* check_file up to checker.visit(tree)
CheckerInit(kinds) ==
    /\ source_lines \in [1..NumLines -> kinds]
    /\ model_definitions = EmptyDict
    /\ imported_models = EmptyDict
    /\ processed_files = {current_file}
    /\ errors = <<>>
    /\ visited = 0
    /\ calls = <<>>
    /\ declared = {}

Init == CheckerInit({PlainLine, ShortIgnoreLine})

CallInit == CheckerInit({PlainLine, ShortFieldLine})

DirectiveInit == CheckerInit(LineKinds)

visit_Import ==
    /\ visited' = visited + 1
    /\ UNCHANGED <<source_lines, model_definitions, imported_models,
                   processed_files, errors, calls, declared>>

\* the bindings one "from module import names" statement adds
RECURSIVE Bind(_, _, _)
Bind(imports, module, names) ==
    IF names = <<>> THEN imports
    ELSE Bind(IF Head(names).name = "*" THEN imports
              ELSE Put(imports,
                       IF Head(names).asname # None THEN Head(names).asname
                       ELSE Head(names).name,
                       module),
              module, Tail(names))

visit_ImportFrom(node) ==
    /\ imported_models' = IF node.module = NoModule THEN imported_models
                          ELSE Bind(imported_models, node.module, node.names)
    /\ visited' = visited + 1
    /\ UNCHANGED <<source_lines, model_definitions, processed_files, errors,
                   calls, declared>>

visit_ClassDef(node) ==
    /\ model_definitions' =
          IF is_base_model(node.bases)
          THEN Put(model_definitions, node.name, _extract_fields(node.body))
          ELSE model_definitions
    /\ declared' = IF is_base_model(node.bases) THEN declared \cup {node.name}
                   ELSE declared
    /\ visited' = visited + 1
    /\ UNCHANGED <<source_lines, imported_models, processed_files, errors, calls>>

class_name_of(func) ==
    IF func.type \in {"Name", "Attribute"} THEN func.name ELSE None

visit_Call(node) ==
    LET class_name == class_name_of(node.func)
        loaded == IF class_name # None
                  THEN _load_imported_model(model_definitions, imported_models,
                                            processed_files, class_name,
                                            current_file)
                  ELSE [model_definitions |-> model_definitions,
                        processed_files |-> processed_files]
        checked == class_name # None /\ class_name \in DOMAIN loaded.model_definitions
        found == IF checked
                 THEN _check_instantiation(source_lines,
                                           loaded.model_definitions[class_name],
                                           node, class_name)
                 ELSE <<>>
    IN /\ model_definitions' = loaded.model_definitions
       /\ processed_files' = loaded.processed_files
       /\ errors' = errors \o found
       /\ calls' = Append(calls,
                          [node |-> node, checked |-> checked, found |-> found,
                           fields |-> IF checked
                                      THEN loaded.model_definitions[class_name]
                                      ELSE <<>>,
                           module |-> IF class_name \in DOMAIN imported_models
                                      THEN imported_models[class_name]
                                      ELSE NoModule])
       /\ visited' = visited + 1
       /\ UNCHANGED <<source_lines, imported_models, declared>>

CallNode(func, names, spread, lineno, col_offset) ==
    [type |-> "Call", func |-> func, keywords |-> Keywords(names, spread),
     lineno |-> lineno, col_offset |-> col_offset]

\* ---------------------------------------------- one class, then one call
\* every class body, in a file whose lines carry no directive or a
\* field-scoped one
DeclareModel ==
    /\ visited = 0
    /\ \E bases \in BaseModelBases, body \in Bodies :
          visit_ClassDef(ClassDefNode("M", bases, body))

Instantiate ==
    /\ visited = 1
    /\ \E names \in SUBSET KeywordNames, spread \in BOOLEAN, lineno \in 1..NumLines :
          visit_Call(CallNode([type |-> "Name", name |-> "M"], names, spread,
                              lineno, 4))

CallNext == DeclareModel \/ Instantiate

SpecCall == CallInit /\ [][CallNext]_vars

\* bodies of required fields a, b and of a: Optional[int] = None, in a file
\* whose lines carry every kind of directive
OptionalA == [type |-> "AnnAssign", target_type |-> "Name", target |-> "a",
              value |-> TRUE, annotation |-> AnnOptional]

DirectiveBodies == SeqsUpTo({FieldA, FieldB, OptionalA}, MaxItems)

DeclareSmallModel ==
    /\ visited = 0
    /\ \E body \in DirectiveBodies :
          visit_ClassDef(ClassDefNode("M",
                                      <<[type |-> "Name", name |-> "BaseModel"]>>,
                                      body))

DirectiveNext == DeclareSmallModel \/ Instantiate

SpecDirective == DirectiveInit /\ [][DirectiveNext]_vars

\* --------------------------------------------- the traversal of a file
TravBodies == {<<FieldA>>, <<FieldB, FieldA>>}
TravModules == {Module(<<"b">>), Module(<<"other">>), Module(<<"bad">>),
                Module(<<"missing">>)}
TravFuncs == {[type |-> "Name", name |-> "M"], [type |-> "Attribute", name |-> "X"],
              [type |-> "Call", name |-> None]}
\* (lineno, col_offset) of the calls
Positions == {<<1, 4>>, <<2, 0>>}

Import == visited < MaxNodes /\ visit_Import

ImportFrom ==
    /\ visited < MaxNodes
    /\ \/ \E module \in TravModules, name \in ClassNames :
             visit_ImportFrom(ImportFromNode(module, <<Alias(name)>>))
       \/ \E module \in {Module(<<"locked">>), Module(<<"pkg">>)} :
             visit_ImportFrom(ImportFromNode(module, <<Alias("X")>>))
       \/ visit_ImportFrom(ImportFromNode(Module(<<"other">>), <<Alias("*")>>))
       \/ visit_ImportFrom(ImportFromNode(Module(<<"other">>),
                                          <<[name |-> "X", asname |-> "M"]>>))
       \/ visit_ImportFrom(ImportFromNode(NoModule, <<Alias("M")>>))

ClassDef ==
    /\ visited < MaxNodes
    /\ \/ \E name \in ClassNames, body \in TravBodies :
             visit_ClassDef(ClassDefNode(name,
                                         <<[type |-> "Name", name |-> "BaseModel"]>>,
                                         body))
       \/ visit_ClassDef(ClassDefNode("M", <<[type |-> "Name", name |-> "Enum"]>>,
                                      <<FieldA>>))

Call ==
    /\ visited < MaxNodes
    /\ \E func \in TravFuncs, pos \in Positions :
          visit_Call(CallNode(func, {}, FALSE, pos[1], pos[2]))

Next == Import \/ ImportFrom \/ ClassDef \/ Call

Spec == Init /\ [][Next]_vars


\* ================================================================ claims
\* What the claims speak about, read off the logged call c and the text of
\* the lines, independently of the checker's own helpers.
Supplied(c) ==
    {c.node.keywords[i].arg :
        i \in {k \in 1..Len(c.node.keywords) : c.node.keywords[k].arg # None}}

Spread(c) == \E i \in 1..Len(c.node.keywords) : c.node.keywords[i].arg = None

Names(fields) == {fields[i].name : i \in 1..Len(fields)}

IsRequired(f) == ~f.has_default /\ ~f.is_optional

OwnLine(c) == source_lines[c.node.lineno]

HasLineAbove(c) == c.node.lineno > 1

LineAbove(c) == source_lines[c.node.lineno - 1]

\* the line carries "...touchall: ignore-field"
CarriesFieldDirective(line) ==
    \E i \in 1..Len(line) :
        /\ i >= 3 /\ line[i] = "-field" /\ line[i - 1] = "ignore"
        /\ line[i - 2] = "touchall: "
        /\ \/ line[i - 3] = "# "
           \/ i >= 4 /\ line[i - 3] = "pydantic-" /\ line[i - 4] = "# "

\* the line carries "...touchall: ignore" that is not the start of
\* "ignore-field"
CarriesFullDirective(line) ==
    \E i \in 1..Len(line) :
        /\ i >= 2 /\ line[i] = "ignore" /\ line[i - 1] = "touchall: "
        /\ \/ line[i - 2] = "# "
           \/ i >= 3 /\ line[i - 2] = "pydantic-" /\ line[i - 3] = "# "
        /\ (i < Len(line) => line[i + 1] # "-field")

CarriesDirective(line) == CarriesFieldDirective(line) \/ CarriesFullDirective(line)

NoDirective(c) ==
    /\ ~CarriesDirective(OwnLine(c))
    /\ HasLineAbove(c) => ~CarriesDirective(LineAbove(c))

\* the field names a field-scoped directive of the line names: the name
\* tokens after its "-field"
NamedBy(line) ==
    {line[i] : i \in {k \in 1..Len(line) :
                         /\ line[k] \in Range(NameOrder)
                         /\ \E j \in 1..(k - 1) : line[j] = "-field"}}

FoundOfKind(c, kind) ==
    SelectSeq(c.found, LAMBDA e : e.message.kind = kind)

\* the names listed in a finding: every second token of the joined list
Listed(e) == {e.message.fields[i] :
                 i \in {k \in 1..Len(e.message.fields) : k % 2 = 1}}

\* t is the names of S in ascending order, joined by ", "
IsSortedJoin(t, S) ==
    /\ Len(t) = 2 * Cardinality(S) - 1
    /\ \A k \in 1..Len(t) :
          IF k % 2 = 1
          THEN t[k] \in S /\ (k + 2 <= Len(t) => Rank(t[k]) < Rank(t[k + 2]))
          ELSE t[k] = ", "

AtCall(c, e) == e.lineno = c.node.lineno /\ e.col_offset = c.node.col_offset

\* C1: for a model whose fields are all required and a keyword-only call
\* without spread and without directive that supplies no undeclared keyword:
\* no finding when every field is supplied, otherwise exactly one finding, a
\* missing-required one at the call's position listing exactly the omitted
\* fields in lexical order joined by ", ".
C1_OnlyRequired ==
    \A i \in 1..Len(calls) :
        LET c == calls[i]
            S == Names(c.fields) \ Supplied(c)
        IN (/\ c.checked
            /\ \A k \in 1..Len(c.fields) : IsRequired(c.fields[k])
            /\ ~Spread(c)
            /\ NoDirective(c)
            /\ Supplied(c) \subseteq Names(c.fields))
           => /\ errors = c.found
              /\ IF S = {} THEN c.found = <<>>
                 ELSE /\ Len(c.found) = 1
                      /\ c.found[1].message.kind = "missing_required"
                      /\ c.found[1].message.prefix = "Error:"
                      /\ AtCall(c, c.found[1])
                      /\ IsSortedJoin(c.found[1].message.fields, S)

C1_Witness ==
    \E i \in 1..Len(calls) :
        LET c == calls[i]
        IN /\ c.checked
           /\ c.fields # <<>> /\ c.fields[1].name = "b"
           /\ \A k \in 1..Len(c.fields) : IsRequired(c.fields[k])
           /\ ~Spread(c) /\ NoDirective(c)
           /\ Supplied(c) = {}
           /\ Names(c.fields) = {"a", "b"}
           /\ Len(errors) = 1

\* C2: in an unsuppressed, spread-free call, every omitted field that is
\* declared Optional[...] or with a default is named in exactly one
\* unused-optional finding of the call and in no missing-required finding of
\* the call, also when the class body declares the name more than once.
C2_OptionalNeverRequired ==
    \A i \in 1..Len(calls) :
        LET c == calls[i]
        IN (c.checked /\ ~Spread(c) /\ NoDirective(c))
           => \A k \in 1..Len(c.fields) :
                 (~IsRequired(c.fields[k]) /\ c.fields[k].name \notin Supplied(c))
                 => /\ Len(FoundOfKind(c, "unused_optional")) = 1
                    /\ c.fields[k].name
                          \in Listed(FoundOfKind(c, "unused_optional")[1])
                    /\ \A j \in 1..Len(c.found) :
                          c.found[j].message.kind = "missing_required"
                          => c.fields[k].name \notin Listed(c.found[j])

C4_SpreadSkipped ==
    \A i \in 1..Len(calls) :
        Spread(calls[i]) => calls[i].found = <<>> /\ errors = <<>>

C4_Witness ==
    \E i \in 1..Len(calls) :
        LET c == calls[i]
        IN /\ c.checked /\ Spread(c) /\ NoDirective(c)
           /\ Supplied(c) = {"c"}
           /\ \E k \in 1..Len(c.fields) : IsRequired(c.fields[k])
           /\ \E k \in 1..Len(c.fields) : ~IsRequired(c.fields[k])
           /\ c.found = <<>>


\* a required or optional field is omitted, or an undeclared keyword supplied
HasSomethingToReport(c) ==
    /\ c.checked /\ ~Spread(c)
    /\ Names(c.fields) \ Supplied(c) # {} \/ Supplied(c) \ Names(c.fields) # {}

\* C5 as stated: a full directive (either spelling) on the call's line or
\* on the line above eliminates every finding of the call, provided the
\* call's own line carries no field-scoped directive.
C5_FullDirectiveAsStated ==
    \A i \in 1..Len(calls) :
        LET c == calls[i]
        IN (/\ \/ CarriesFullDirective(OwnLine(c))
               \/ HasLineAbove(c) /\ CarriesFullDirective(LineAbove(c))
            /\ ~CarriesFieldDirective(OwnLine(c)))
           => c.found = <<>>

\* C5 amended: a full directive on the call's own line eliminates every
\* finding when that line carries no field-scoped directive; a full
\* directive on the line above does when neither the own line nor the line
\* above carries a field-scoped directive.
C5_FullDirective ==
    \A i \in 1..Len(calls) :
        LET c == calls[i]
        IN (/\ ~CarriesFieldDirective(OwnLine(c))
            /\ \/ CarriesFullDirective(OwnLine(c))
               \/ /\ HasLineAbove(c)
                  /\ CarriesFullDirective(LineAbove(c))
                  /\ ~CarriesFieldDirective(LineAbove(c)))
           => c.found = <<>> /\ errors = <<>>

C5_Witness ==
    \E i \in 1..Len(calls) :
        LET c == calls[i]
        IN /\ HasSomethingToReport(c)
           /\ OwnLine(c) = PlainLine
           /\ HasLineAbove(c) /\ LineAbove(c) = LongIgnoreLine
           /\ Supplied(c) = {"c"}
           /\ \E k \in 1..Len(c.fields) : IsRequired(c.fields[k])
           /\ errors = <<>>

\* the names a finding lists, in order
NamesOf(e) == [k \in 1..((Len(e.message.fields) + 1) \div 2) |->
                  e.message.fields[2 * k - 1]]

RECURSIVE Rejoin(_)
Rejoin(names) == IF Len(names) <= 1 THEN names
                 ELSE <<names[1], ", ">> \o Rejoin(Tail(names))

\* the findings with the names of N taken out of the missing-required and
\* unused-optional lists, a finding left without names being dropped
RECURSIVE RemoveNamed(_, _)
RemoveNamed(found, N) ==
    IF found = <<>> THEN <<>>
    ELSE LET e == Head(found)
             kept == SelectSeq(NamesOf(e), LAMBDA n : n \notin N)
         IN (IF e.message.kind = "unknown_field" THEN <<e>>
             ELSE IF kept = <<>> THEN <<>>
             ELSE <<[e EXCEPT !.message.fields = Rejoin(kept)]>>)
            \o RemoveNamed(Tail(found), N)

\* the findings of the same call in a file without any directive
WithoutDirective(c) ==
    _check_instantiation([k \in 1..Len(source_lines) |-> PlainLine], c.fields,
                         c.node, c.node.func.name)

\* C6 as stated: a field-scoped directive on the call's line or the line
\* above removes exactly the named fields from the missing-required and
\* unused-optional findings and changes nothing else.
C6_FieldDirectiveAsStated ==
    \A i \in 1..Len(calls) :
        LET c == calls[i]
        IN c.checked
           => /\ CarriesFieldDirective(OwnLine(c))
                 => c.found = RemoveNamed(WithoutDirective(c), NamedBy(OwnLine(c)))
              /\ (HasLineAbove(c) /\ CarriesFieldDirective(LineAbove(c)))
                 => c.found = RemoveNamed(WithoutDirective(c), NamedBy(LineAbove(c)))

\* C6 amended: a field-scoped directive on the call's own line, or on the
\* line above when the own line carries no directive at all, removes exactly
\* the named fields from the missing-required and unused-optional findings
\* and changes nothing else.
C6_FieldDirective ==
    \A i \in 1..Len(calls) :
        LET c == calls[i]
        IN c.checked
           => /\ CarriesFieldDirective(OwnLine(c))
                 => c.found = RemoveNamed(WithoutDirective(c), NamedBy(OwnLine(c)))
              /\ (/\ HasLineAbove(c)
                  /\ CarriesFieldDirective(LineAbove(c))
                  /\ ~CarriesDirective(OwnLine(c)))
                 => c.found = RemoveNamed(WithoutDirective(c), NamedBy(LineAbove(c)))

C6_Witness ==
    \E i \in 1..Len(calls) :
        LET c == calls[i]
        IN /\ HasSomethingToReport(c)
           /\ OwnLine(c) = ShortFieldLine
           /\ Supplied(c) = {"c"}
           /\ Len(c.fields) = 2
           /\ c.fields[1].name = "b" /\ IsRequired(c.fields[1])
           /\ c.fields[2].name = "a" /\ IsRequired(c.fields[2])
           /\ Len(WithoutDirective(c)) = 2
           /\ WithoutDirective(c)[1].message.fields = <<"a", ", ", "b">>
           /\ Len(c.found) = 2
           /\ c.found[1].message.fields = <<"b">>

\* ------------------------------------------------- claims on the traversal
Before(e1, e2) ==
    \/ e1.lineno < e2.lineno
    \/ e1.lineno = e2.lineno /\ e1.col_offset <= e2.col_offset

\* C7: the findings check_file returns are sorted ascending by
\* (line, column), whatever the order in which the calls are reached.
C7_SortedByPosition ==
    \A i \in 1..(Len(errors) - 1) : Before(errors[i], errors[i + 1])

\* the module cannot be resolved, or its file cannot be read or parsed
Unloadable(module) ==
    LET file_path == _resolve_module_path(module, current_file)
    IN file_path = NoPath \/ Files[file_path].status # "ok"

\* C8: a name from-imported from a module that cannot be resolved, read or
\* parsed (and not declared as a class in the analysed file) stays
\* unmodeled: no call to it produces a finding, whatever else is imported
\* and called before.
C8_UnresolvedStaysUnmodeled ==
    \A i \in 1..Len(calls) :
        LET c == calls[i]
        IN (/\ class_name_of(c.node.func) # None
            /\ c.module # NoModule
            /\ Unloadable(c.module)
            /\ class_name_of(c.node.func) \notin declared)
           => c.found = <<>>

\* the models a file declares
DeclaredIn(file_path) == TempVisit(Files[file_path].tree, EmptyDict)

\* the file of module does not declare name but from-imports it from a
\* module whose file declares it: the fields of that declaration
ReExported(module, name) ==
    LET file_path == _resolve_module_path(module, current_file)
    IN IF file_path = NoPath \/ Files[file_path].status # "ok"
          \/ name \in DOMAIN DeclaredIn(file_path)
       THEN {}
       ELSE {DeclaredIn(_resolve_module_path(n.module, file_path))[name] :
                n \in {m \in Range(Files[file_path].tree) :
                          /\ m.type = "ImportFrom"
                          /\ \E k \in 1..Len(m.names) : m.names[k].name = name
                          /\ _resolve_module_path(m.module, file_path) # NoPath
                          /\ name \in DOMAIN DeclaredIn(
                                 _resolve_module_path(m.module, file_path))}}

\* C9: imports are resolved transitively: a call to a name imported from a
\* file that only re-imports it from the file declaring it is validated
\* against that declaration.
C9_TransitiveImport ==
    \A i \in 1..Len(calls) :
        LET c == calls[i]
            name == class_name_of(c.node.func)
        IN (/\ name # None
            /\ c.module # NoModule
            /\ name \notin declared
            /\ ReExported(c.module, name) # {})
           => c.checked /\ c.fields \in ReExported(c.module, name)

\* C10: the registry is complete before any call is validated: every call
\* whose callee is a model class declared anywhere in the analysed file is
\* validated, also when the traversal reaches the call before the class.
C10_RegistryCompleteBeforeCalls ==
    \A i \in 1..Len(calls) :
        class_name_of(calls[i].node.func) \in declared => calls[i].checked

\* C11 as stated: the registry holds one definition per name and the first
\* definition registered for a name is never replaced, neither by a class
\* declaration in the analysed file nor by a merge from another file.
C11_FirstDefinitionKeptAsStated ==
    [][\A n \in DOMAIN model_definitions :
          /\ n \in DOMAIN model_definitions'
          /\ model_definitions'[n] = model_definitions[n]]_vars

\* C11 amended: the registry holds one definition per name, a registered
\* name stays registered, and its fields are never replaced by a merge from
\* another file: they change only in the step that visits a model class
\* declaration of that name in the analysed file, which takes no call.
C11_FirstDefinitionKept ==
    [][\A n \in DOMAIN model_definitions :
          /\ n \in DOMAIN model_definitions'
          /\ model_definitions'[n] # model_definitions[n]
             => /\ calls' = calls
                /\ processed_files' = processed_files
                /\ n \in declared']_vars

\* a class X declared in the analysed file and the file other.py, which
\* declares another X, merged for a call to M: X keeps the local fields
C11_Witness ==
    /\ "X" \in declared
    /\ <<"proj", "other.py">> \in processed_files
    /\ "M" \in DOMAIN model_definitions /\ "M" \notin declared
    /\ "X" \in DOMAIN DeclaredIn(<<"proj", "other.py">>)
    /\ model_definitions["X"] # DeclaredIn(<<"proj", "other.py">>)["X"]
    /\ model_definitions["M"] = DeclaredIn(<<"proj", "other.py">>)["M"]
    /\ \E i \in 1..Len(calls) :
          /\ class_name_of(calls[i].node.func) = "M"
          /\ calls[i].checked

====
